---- MODULE Spec2Model ----
(***************************************************************************)
(* Model of src/mongo/db/storage/mmap_v1/data_file.cpp: the DataFile size  *)
(* policy, DataFile::openExisting / open / allocExtentArea and             *)
(* DataFileHeader::init / checkUpgrade.                                    *)
(*                                                                         *)
(* One DataFile object (fileNo fixed at construction) and the one file on  *)
(* disk it names.  The header lives in the mapped bytes of the file, so    *)
(* the header record `h` is the file's first 8192 bytes whether or not the *)
(* DataFile currently holds a view (`mb`).                                 *)
(***************************************************************************)
EXTENDS Integers, Sequences, FiniteSets, TLC

\* ---------------------------------------------------------------- bounds
MaxFileNo == 1           \* Spec: fileNo ranges over 0..MaxFileNo
MaxAllocs == 2           \* Spec: allocExtentArea calls per behaviour
MaxSizeFileNo == 6       \* SpecSize: fileNo ranges over 0..MaxSizeFileNo
MaxMinSizeK == 8         \* SpecSize: minSize ranges over k * 64 MiB (+-1)
MaxCrashes == 1          \* SpecDur: crashes per behaviour

\* ------------------------------------------------------- program constants
MiB == 1024 * 1024
HeaderSize == 8192
LargeCap == 2146435072         \* 0x7ff00000
IntMax == 2147483647           \* 0x7fffffff
CorruptThreshold == 32768
PageSize == 4096
InitSlack == 16

\* ------------------------------------------------------------ DiskLoc
DiskLoc(a, ofs) == [a |-> a, ofs |-> ofs]
\* DiskLoc() / DiskLoc::Null(): the null sentinel, distinct from (0,0)
NullLoc == [a |-> -1, ofs |-> 0]
ZeroLoc == DiskLoc(0, 0)

\* ------------------------------------------------------- version tags
UninitVersion == 0
LegacyVersion == 1
defaultForNewFiles == 2

VARIABLES
    smallfiles,     \* mmapv1GlobalOptions.smallfiles
    prealloc,       \* mmapv1GlobalOptions.prealloc
    ptr32,          \* sizeof(int*) == 4
    fileNo,         \* DataFile::fileNo
    shutdown,       \* inShutdown()
    alive,          \* FALSE once invariant() has aborted the process
    fileExists,     \* boost::filesystem::exists(filename)
    fileLen,        \* mmf.length(): [hi |-> len >> 31, lo |-> len & 0x7fffffff]
    h,              \* the DataFileHeader bytes at offset 0 of the file
    mb,             \* DataFile::_mb != 0
    pending,        \* size handed to FileAllocator::requestAllocation, 0 if none
    nCreatedFile,   \* number of getDur().createdFile notifications issued
    nUpgrade,       \* number of checkUpgrade rewrites committed
    deferred,       \* init has returned at the "TEMP NOT INITIALIZING" bypass
    nAlloc,         \* allocExtentArea calls made
    ret,            \* the last call: its arguments and its outcome
    durable,        \* the header a crash-recovery replay would show
    unit,           \* per caller: the writes declared to txn->recoveryUnit()
    pc,             \* per caller: the statement it has reached
    lcl,            \* per caller: allocExtentArea's size and offset
    lockHolder,     \* the caller holding the exclusive write lock, 0 if none
    useLock,        \* callers take the write lock around allocExtentArea
    grants,         \* the DiskLocs allocExtentArea has returned, in order
    crashes         \* crashes so far

vars == <<smallfiles, prealloc, ptr32, fileNo, shutdown, alive, fileExists,
          fileLen, h, mb, pending, nCreatedFile, nUpgrade, deferred, nAlloc,
          ret, durable, unit, pc, lcl, lockHolder, useLock, grants, crashes>>

config == <<smallfiles, prealloc, ptr32, fileNo>>

stepVars == <<unit, pc, lcl, lockHolder, useLock, grants, crashes>>

Callers == {1, 2}

\* ------------------------------------------------------------ size policy
\* DataFile::maxSize
maxSize ==
    IF ptr32 THEN 512 * MiB
    ELSE IF smallfiles THEN LargeCap \div 4
    ELSE LargeCap

\* DataFile::defaultSize
defaultSizeOffByOne ==
    LET size == IF fileNo < 4 THEN (64 * MiB) * (2 ^ fileNo) ELSE LargeCap
    IN  IF smallfiles THEN size \div 4 ELSE size
defaultSize ==
    LET size == IF fileNo <= 4 THEN (64 * MiB) * (2 ^ fileNo) ELSE LargeCap
    IN  IF smallfiles THEN size \div 4 ELSE size

\* the while loop of DataFile::open
RECURSIVE growSizeHalfOfDoubled(_, _)
growSizeHalfOfDoubled(size, minSize) ==
    IF size < minSize
    THEN IF size > (maxSize \div 2) \div 2
         THEN maxSize
         ELSE growSizeHalfOfDoubled(size * 2, minSize)
    ELSE size
RECURSIVE growSize(_, _)
growSize(size, minSize) ==
    IF size < minSize
    THEN IF size < maxSize \div 2
         THEN growSize(size * 2, minSize)
         ELSE maxSize
    ELSE size

\* if ( size > maxSize() ) size = maxSize();
clampNoop(size) == size
clampSize(size) == IF size > maxSize THEN maxSize ELSE size

\* the size DataFile::open computes before its two verify()s
openSize(minSize) == clampSize(growSize(defaultSize, minSize))

\* ------------------------------------------------------------ the header
\* DataFileHeader::uninitialized()
uninitialized(hd) == hd.version = UninitVersion

\* a file whose bytes were never written (preallocated only)
ZeroHeader ==
    [version |-> UninitVersion, fileLength |-> 0, unused |-> ZeroLoc,
     unusedLength |-> 0, freeListStart |-> ZeroLoc, freeListEnd |-> ZeroLoc]

\* h->unusedLength = fileLength - HeaderSize - 16;
initUnusedLengthNoSlack(filelength) == filelength - HeaderSize
initUnusedLength(filelength) == filelength - HeaderSize - InitSlack

\* h->unused.set( fileno, HeaderSize );
initUnusedAtZero(fileno) == DiskLoc(fileno, 0)
initUnused(fileno) == DiskLoc(fileno, HeaderSize)

\* the field writes of the first-time initialization
initFields(fileno, filelength) ==
    [version |-> defaultForNewFiles,
     fileLength |-> filelength,
     unused |-> initUnused(fileno),
     unusedLength |-> initUnusedLength(filelength),
     freeListStart |-> NullLoc,
     freeListEnd |-> NullLoc]

AllFields == {"version", "fileLength", "unused", "unusedLength",
              "freeListStart", "freeListEnd"}

\* the value checkUpgrade stores into each free-list pointer
upgradedLocLegacy == ZeroLoc
upgradedLoc == NullLoc

\* the fields checkUpgrade rewrites
upgradeFields == {"freeListStart", "freeListEnd"}

\* DataFileHeader::checkUpgrade: the header after the call, its outcome,
\* the fields written
checkUpgradeNoInvariant(hd) ==
    IF hd.freeListStart = ZeroLoc
    THEN [h |-> [f \in AllFields |->
                    IF f \in upgradeFields THEN upgradedLoc ELSE hd[f]],
          outcome |-> "upgraded", writes |-> upgradeFields,
          notified |-> FALSE]
    ELSE [h |-> hd, outcome |-> "ok", writes |-> {}, notified |-> FALSE]
checkUpgrade(hd) ==
    IF hd.freeListStart = ZeroLoc
    THEN IF hd.freeListEnd # ZeroLoc
         THEN [h |-> hd, outcome |-> "invariant", writes |-> {},
               notified |-> FALSE]
         ELSE [h |-> [f \in AllFields |->
                         IF f \in upgradeFields THEN upgradedLoc ELSE hd[f]],
               outcome |-> "upgraded", writes |-> upgradeFields,
               notified |-> FALSE]
    ELSE [h |-> hd, outcome |-> "ok", writes |-> {}, notified |-> FALSE]

\* if (!txn->lockState()->isWriteLocked()) ... return;
lockBypassNever(locked) == FALSE
lockBypass(locked) == ~locked

\* DataFileHeader::init
initAlways(hd, fileno, filelength, locked) ==
    [h |-> initFields(fileno, filelength), outcome |-> "initialized",
     writes |-> AllFields, notified |-> TRUE]
init(hd, fileno, filelength, locked) ==
    IF uninitialized(hd)
    THEN IF ~(filelength > CorruptThreshold)
         THEN [h |-> hd, outcome |-> "massert13640", writes |-> {},
               notified |-> FALSE]
         ELSE IF lockBypass(locked)
         THEN [h |-> hd, outcome |-> "deferred", writes |-> {},
               notified |-> FALSE]
         ELSE [h |-> initFields(fileno, filelength),
               outcome |-> "initialized", writes |-> AllFields,
               notified |-> TRUE]
    ELSE checkUpgrade(hd)

\* ------------------------------------------------------------ file lengths
\* unsigned long long sz, split at bit 31: sz <= 0x7fffffff iff hi = 0
ULL(hi, lo) == [hi |-> hi, lo |-> lo]

\* the checks DataFile::openExisting makes on mmf.length()
minLengthOk(sz) ==
    \/ ~(sz.lo < 64 * MiB /\ ~smallfiles)
    \/ (sz.lo >= 16 * MiB /\ sz.lo % MiB = 0)

lengthOkNoPage(sz) ==
    /\ sz.hi = 0
    /\ minLengthOk(sz)
lengthOk(sz) ==
    /\ sz.hi = 0
    /\ sz.lo % PageSize = 0
    /\ minLengthOk(sz)

\* ------------------------------------------------------------ inputs
\* Spec opens at the default size; SpecSize explores the growth policy
MinSizes == {0}

SizeMinSizes ==
    {k * 64 * MiB + d : k \in 0..MaxMinSizeK, d \in {-1, 0, 1}} \cup {IntMax}

AllocSizes == {-PageSize, 0, 1000, IntMax}

\* lengths of files found on disk at start-up
ExistingLengths ==
    {ULL(0, 16 * MiB), ULL(0, 64 * MiB), ULL(0, 20 * MiB + PageSize),
     ULL(0, 64 * MiB + 100), ULL(1, 0)}

\* headers a file written by an earlier run of this code can carry: never
\* written, 2.4 format, 2.4 format with a torn free-list pair, current format
ExistingHeaders(len) ==
    {ZeroHeader} \cup
    IF ~(len.hi = 0 /\ len.lo >= 64 * MiB /\ len.lo % MiB = 0) THEN {}
    ELSE
    { [version |-> vf[1], fileLength |-> len.lo,
       unused |-> DiskLoc(fileNo, HeaderSize),
       unusedLength |-> len.lo - InitSlack - HeaderSize,
       freeListStart |-> vf[2], freeListEnd |-> vf[3]] :
         vf \in {<<LegacyVersion, ZeroLoc, ZeroLoc>>,
                 <<LegacyVersion, ZeroLoc, DiskLoc(fileNo, HeaderSize)>>,
                 <<defaultForNewFiles, NullLoc, NullLoc>>} }

\* ------------------------------------------------------------ call records
NoRet ==
    [op |-> "none", outcome |-> "none", size |-> 0, minSize |-> 0,
     preallocateOnly |-> FALSE, locked |-> FALSE, fileno |-> 0,
     filelength |-> 0, loc |-> NullLoc, writes |-> {}, notified |-> FALSE,
     mapOk |-> FALSE, initCalled |-> FALSE]

\* a recovery unit with no write declared; inited / upgraded record that
\* init / checkUpgrade wrote the header while the unit was open
NoUnit ==
    [fields |-> {}, pre |-> ZeroHeader, inited |-> FALSE, upgraded |-> FALSE]

NoLocals == [size |-> 0, offset |-> 0]

\* no caller is inside a call, no unit of work is open
Quiet ==
    /\ unit = [c \in Callers |-> NoUnit]
    /\ pc = [c \in Callers |-> "idle"]
    /\ lcl = [c \in Callers |-> NoLocals]
    /\ lockHolder = 0
    /\ grants = <<>>
    /\ crashes = 0

\* ------------------------------------------------------------ Init
InitFor(fileNos, widths) ==
    /\ smallfiles \in BOOLEAN
    /\ prealloc \in BOOLEAN
    /\ ptr32 \in widths
    /\ fileNo \in fileNos
    /\ shutdown = FALSE
    /\ alive = TRUE
    /\ \/ /\ fileExists = FALSE
          /\ fileLen = ULL(0, 0)
          /\ h = ZeroHeader
       \/ /\ fileExists = TRUE
          /\ fileLen \in ExistingLengths
          /\ h \in ExistingHeaders(fileLen)
    /\ mb = FALSE
    /\ pending = 0
    /\ nCreatedFile = 0
    /\ nUpgrade = 0
    /\ deferred = FALSE
    /\ nAlloc = 0
    /\ ret = NoRet
    /\ durable = h
    /\ Quiet
    /\ useLock = TRUE

\* Spec explores the 64-bit build; SpecSize covers both address widths
Init == InitFor(0..MaxFileNo, {FALSE})

\* the effect of a DataFileHeader::init call on the header and the ledgers
ApplyInit(r) ==
    /\ h' = r.h
    /\ nCreatedFile' = nCreatedFile + (IF r.notified THEN 1 ELSE 0)
    /\ nUpgrade' = nUpgrade + (IF r.outcome = "upgraded" THEN 1 ELSE 0)
    /\ deferred' = (deferred \/ r.outcome = "deferred")
    /\ alive' = (r.outcome # "invariant")

\* ------------------------------------------------------------ openExisting
\* where a failed open leaves _mb
mbAfterFailedMapSet == TRUE
mbAfterFailedMap == FALSE

openExisting(mapOk) ==
    /\ alive
    /\ IF mb
       THEN /\ ret' = [NoRet EXCEPT !.op = "openExisting", !.outcome = "verify",
                                    !.mapOk = mapOk]
            /\ mb' = mb
       ELSE IF ~fileExists
       THEN /\ ret' = [NoRet EXCEPT !.op = "openExisting",
                                    !.outcome = "InvalidPath", !.mapOk = mapOk]
            /\ mb' = mb
       ELSE IF ~mapOk
       THEN /\ ret' = [NoRet EXCEPT !.op = "openExisting",
                                    !.outcome = "InternalError",
                                    !.mapOk = mapOk]
            /\ mb' = mbAfterFailedMap
       ELSE /\ mb' = TRUE
            /\ ret' = [NoRet EXCEPT !.op = "openExisting",
                                    !.outcome = IF lengthOk(fileLen)
                                                THEN "ok" ELSE "verify",
                                    !.mapOk = mapOk]
    /\ UNCHANGED <<config, shutdown, alive, fileExists, fileLen, h, pending,
                   nCreatedFile, nUpgrade, deferred, nAlloc>>
    /\ UNCHANGED <<durable, stepVars>>

\* ------------------------------------------------------------ open
\* if (mmapv1GlobalOptions.prealloc) FileAllocator::get()->requestAllocation
requestAlways(size) == size
requestAllocation(size) == IF prealloc THEN size ELSE pending

\* data_file_check: the uassert raised on a null view
data_file_check == IF ptr32 THEN "uassert10084" ELSE "uassert10085"

open(minSize, preallocateOnly, locked, createOk) ==
    LET size == openSize(minSize)
        R == [NoRet EXCEPT !.op = "open", !.size = size, !.minSize = minSize,
                           !.preallocateOnly = preallocateOnly,
                           !.locked = locked, !.mapOk = createOk]
        Same == UNCHANGED <<fileExists, fileLen, h, mb, pending, nCreatedFile,
                            nUpgrade, deferred, alive>>
    IN
    /\ alive
    /\ IF ~(size >= 64 * MiB \/ smallfiles) \/ size % PageSize # 0
       THEN ret' = [R EXCEPT !.outcome = "verify"] /\ Same
       ELSE IF preallocateOnly
       THEN /\ pending' = requestAllocation(size)
            /\ ret' = [R EXCEPT !.outcome = "ok"]
            /\ UNCHANGED <<fileExists, fileLen, h, mb, nCreatedFile, nUpgrade,
                           deferred, alive>>
       ELSE IF mb
       THEN ret' = [R EXCEPT !.outcome = "verify"] /\ Same
       ELSE IF ~createOk
       THEN ret' = [R EXCEPT !.outcome = data_file_check] /\ Same
       ELSE \* mmf.create maps the file; an existing file keeps its length
            LET sz == IF fileExists THEN fileLen ELSE ULL(0, size)
                hd == IF fileExists THEN h ELSE ZeroHeader
            IN
            /\ mb' = TRUE
            /\ fileExists' = TRUE
            /\ fileLen' = sz
            /\ pending' = pending
            /\ IF sz.hi # 0
               THEN /\ ret' = [R EXCEPT !.outcome = "verify"]
                    /\ h' = hd
                    /\ UNCHANGED <<nCreatedFile, nUpgrade, deferred, alive>>
               ELSE LET r == init(hd, fileNo, sz.lo, locked) IN
                    /\ ApplyInit(r)
                    /\ ret' = [R EXCEPT !.outcome = r.outcome,
                                        !.fileno = fileNo,
                                        !.filelength = sz.lo,
                                        !.writes = r.writes,
                                        !.notified = r.notified,
                                        !.initCalled = TRUE]
    /\ UNCHANGED <<config, shutdown, nAlloc>>
    /\ durable' = h' /\ UNCHANGED stepVars

\* ------------------------------------------------------------ header init
\* DataFileHeader::init called on the mapped header
InitLengths == {CorruptThreshold, CorruptThreshold + 1}

headerInit(fileno, filelength, locked) ==
    /\ alive
    /\ mb
    /\ LET r == init(h, fileno, filelength, locked) IN
       /\ ApplyInit(r)
       /\ ret' = [NoRet EXCEPT !.op = "init", !.outcome = r.outcome,
                               !.fileno = fileno, !.filelength = filelength,
                               !.locked = locked, !.writes = r.writes,
                               !.notified = r.notified,
                               !.initCalled = TRUE]
    /\ UNCHANGED <<config, shutdown, fileExists, fileLen, mb, pending, nAlloc>>
    /\ durable' = h' /\ UNCHANGED stepVars

\* ------------------------------------------------------------ allocExtentArea
\* return DiskLoc( fileNo, offset );
allocReturnNew(offset, size) == DiskLoc(fileNo, offset + size)
allocReturn(offset, size) == DiskLoc(fileNo, offset)

\* verify( size <= header()->unusedLength );
allocFits(size, unusedLength) == size <= unusedLength

\* the massert / verify that stops the call, "ok" if none does
allocCheckHeaderFirst(size) ==
    IF ~mb THEN "massert10359"
    ELSE IF shutdown THEN "massert10357"
    ELSE IF ~allocFits(size, h.unusedLength) THEN "verify"
    ELSE "ok"
allocCheck(size) ==
    IF shutdown THEN "massert10357"
    ELSE IF ~mb THEN "massert10359"
    ELSE IF ~allocFits(size, h.unusedLength) THEN "verify"
    ELSE "ok"

allocExtentArea(size) ==
    /\ alive
    /\ nAlloc < MaxAllocs
    /\ nAlloc' = nAlloc + 1
    /\ LET c == allocCheck(size)
           offset == h.unused.ofs
       IN
       IF c # "ok"
       THEN /\ ret' = [NoRet EXCEPT !.op = "allocExtentArea", !.outcome = c,
                                    !.size = size]
            /\ h' = h
       ELSE /\ h' = [h EXCEPT !.unused = DiskLoc(fileNo, offset + size),
                              !.unusedLength = h.unusedLength - size]
            /\ ret' = [NoRet EXCEPT !.op = "allocExtentArea", !.outcome = "ok",
                                    !.size = size,
                                    !.loc = allocReturn(offset, size)]
    /\ UNCHANGED <<config, shutdown, alive, fileExists, fileLen, mb, pending,
                   nCreatedFile, nUpgrade, deferred>>
    /\ durable' = h' /\ UNCHANGED stepVars

\* ------------------------------------------------------------ environment
\* the process enters shutdown
Shutdown ==
    /\ alive
    /\ ~shutdown
    /\ shutdown' = TRUE
    /\ ret' = [NoRet EXCEPT !.op = "shutdown"]
    /\ UNCHANGED <<config, alive, fileExists, fileLen, h, mb, pending,
                   nCreatedFile, nUpgrade, deferred, nAlloc>>
    /\ UNCHANGED <<durable, stepVars>>

\* the FileAllocator thread serves the request open(preallocateOnly) made
FileAllocatorRun ==
    /\ alive
    /\ pending # 0
    /\ pending' = 0
    /\ IF fileExists
       THEN UNCHANGED <<fileExists, fileLen, h>>
       ELSE /\ fileExists' = TRUE
            /\ fileLen' = ULL(0, pending)
            /\ h' = ZeroHeader
    /\ ret' = [NoRet EXCEPT !.op = "FileAllocator"]
    /\ UNCHANGED <<config, shutdown, alive, mb, nCreatedFile, nUpgrade,
                   deferred, nAlloc>>
    /\ durable' = h' /\ UNCHANGED stepVars

Next ==
    \/ \E mapOk \in BOOLEAN : openExisting(mapOk)
    \/ \E minSize \in MinSizes, preallocateOnly \in BOOLEAN,
          locked \in BOOLEAN, createOk \in BOOLEAN :
          open(minSize, preallocateOnly, locked, createOk)
    \/ \E fileno \in {fileNo, fileNo + 1}, filelength \in InitLengths,
          locked \in BOOLEAN : headerInit(fileno, filelength, locked)
    \/ \E size \in AllocSizes : allocExtentArea(size)
    \/ Shutdown
    \/ FileAllocatorRun

Spec == Init /\ [][Next]_vars

\* the size policy alone: open(preallocateOnly) over a wide range of fileNo
\* and minSize
InitSize == InitFor(0..MaxSizeFileNo, BOOLEAN) /\ ~fileExists

NextSize == \E minSize \in SizeMinSizes : open(minSize, TRUE, FALSE, FALSE)

SpecSize == InitSize /\ [][NextSize]_vars

\* ------------------------------------------------------------ statements
\* The calls above, one statement at a time, with the caller's unit of work.
\* A write declared through txn->recoveryUnit()->writing keeps the bytes it
\* is about to change; the unit of work ends by commit (its declared fields
\* become durable together) or by rollback (its declared fields get their
\* kept bytes back). A write declared through getDur() is durable at once
\* and belongs to no unit of work.
StepSizes == {-PageSize, 0, 1000}

Step(name) == [NoRet EXCEPT !.op = name]

\* txn->recoveryUnit()->writing(&field)
declare(u, fields) ==
    [u EXCEPT !.fields = @ \cup fields,
              !.pre = [f \in AllFields |->
                          IF f \in fields /\ f \notin u.fields
                          THEN h[f] ELSE u.pre[f]]]

\* the unit told of the write of unused / of unusedLength
allocDeclareUnused(u) == declare(u, {"unused"})
allocDeclareLengthNever(u) == u
allocDeclareLength(u) == declare(u, {"unusedLength"})

\* the gateway DataFileHeader::init declares its writes to
initGatewayUnit == "recoveryUnit"
initGateway == "getDur"

\* checkUpgrade ends its WriteUnitOfWork by commit
upgradeCommitsNever == FALSE
upgradeCommits == TRUE

publish(img, fields, hd) ==
    [f \in AllFields |-> IF f \in fields THEN hd[f] ELSE img[f]]

\* massert / verify of allocExtentArea; the caller holds the write lock for
\* the whole call when useLock
AllocCheck(c, size) ==
    /\ alive /\ pc[c] = "idle"
    /\ nAlloc < MaxAllocs
    /\ useLock => lockHolder = 0
    /\ nAlloc' = nAlloc + 1
    /\ LET r == allocCheck(size) IN
       IF r # "ok"
       THEN /\ ret' = [NoRet EXCEPT !.op = "allocExtentArea", !.outcome = r,
                                    !.size = size]
            /\ UNCHANGED <<pc, lcl, lockHolder>>
       ELSE /\ ret' = Step("allocCheck")
            /\ pc' = [pc EXCEPT ![c] = "checked"]
            /\ lcl' = [lcl EXCEPT ![c] = [size |-> size, offset |-> 0]]
            /\ lockHolder' = IF useLock THEN c ELSE lockHolder
    /\ UNCHANGED <<config, shutdown, alive, fileExists, fileLen, h, mb,
                   pending, nCreatedFile, nUpgrade, deferred, durable, unit,
                   useLock, grants, crashes>>

\* int offset = header()->unused.getOfs();
AllocReadOffset(c) ==
    /\ alive /\ pc[c] = "checked"
    /\ pc' = [pc EXCEPT ![c] = "read"]
    /\ lcl' = [lcl EXCEPT ![c].offset = h.unused.ofs]
    /\ ret' = Step("allocRead")
    /\ UNCHANGED <<config, shutdown, alive, fileExists, fileLen, h, mb,
                   pending, nCreatedFile, nUpgrade, deferred, nAlloc, durable,
                   unit, lockHolder, useLock, grants, crashes>>

\* txn->recoveryUnit()->writing(&h->unused)->set( fileNo, offset + size );
AllocWriteUnused(c) ==
    /\ alive /\ pc[c] = "read"
    /\ unit' = [unit EXCEPT ![c] = allocDeclareUnused(@)]
    /\ h' = [h EXCEPT !.unused = DiskLoc(fileNo, lcl[c].offset + lcl[c].size)]
    /\ pc' = [pc EXCEPT ![c] = "wroteUnused"]
    /\ ret' = Step("allocWriteUnused")
    /\ UNCHANGED <<config, shutdown, alive, fileExists, fileLen, mb, pending,
                   nCreatedFile, nUpgrade, deferred, nAlloc, durable, lcl,
                   lockHolder, useLock, grants, crashes>>

\* txn->recoveryUnit()->writingInt(h->unusedLength) = h->unusedLength - size;
AllocWriteLength(c) ==
    /\ alive /\ pc[c] = "wroteUnused"
    /\ unit' = [unit EXCEPT ![c] = allocDeclareLength(@)]
    /\ h' = [h EXCEPT !.unusedLength = h.unusedLength - lcl[c].size]
    /\ pc' = [pc EXCEPT ![c] = "wroteLength"]
    /\ ret' = Step("allocWriteLength")
    /\ UNCHANGED <<config, shutdown, alive, fileExists, fileLen, mb, pending,
                   nCreatedFile, nUpgrade, deferred, nAlloc, durable, lcl,
                   lockHolder, useLock, grants, crashes>>

\* return DiskLoc( fileNo, offset );
AllocReturn(c) ==
    /\ alive /\ pc[c] = "wroteLength"
    /\ ret' = [NoRet EXCEPT !.op = "allocExtentArea", !.outcome = "ok",
                            !.size = lcl[c].size,
                            !.loc = allocReturn(lcl[c].offset, lcl[c].size)]
    /\ grants' = Append(grants, [c |-> c, size |-> lcl[c].size,
                                 loc |-> allocReturn(lcl[c].offset,
                                                     lcl[c].size)])
    /\ pc' = [pc EXCEPT ![c] = "idle"]
    /\ lcl' = [lcl EXCEPT ![c] = NoLocals]
    /\ lockHolder' = IF useLock THEN 0 ELSE lockHolder
    /\ UNCHANGED <<config, shutdown, alive, fileExists, fileLen, h, mb,
                   pending, nCreatedFile, nUpgrade, deferred, nAlloc, durable,
                   unit, useLock, crashes>>

\* DataFileHeader::init up to and including getDur().createdFile, or the
\* whole of the call when it takes another path
InitCall(c, locked) ==
    /\ alive /\ mb /\ pc[c] = "idle"
    /\ LET r == init(h, fileNo, fileLen.lo, locked) IN
       /\ alive' = (r.outcome # "invariant")
       /\ deferred' = (deferred \/ r.outcome = "deferred")
       /\ nUpgrade' = nUpgrade + (IF r.outcome = "upgraded" THEN 1 ELSE 0)
       /\ IF r.outcome = "initialized"
          THEN /\ nCreatedFile' = nCreatedFile + 1
               /\ pc' = [pc EXCEPT ![c] = "notified"]
               /\ ret' = Step("initNotify")
               /\ UNCHANGED <<h, durable, unit>>
          ELSE /\ ret' = [NoRet EXCEPT !.op = "init",
                             !.outcome = r.outcome, !.locked = locked,
                             !.fileno = fileNo, !.filelength = fileLen.lo,
                             !.writes = r.writes, !.initCalled = TRUE]
               /\ h' = r.h
               /\ IF r.outcome # "upgraded"
                  THEN UNCHANGED <<durable, unit>>
                  ELSE IF upgradeCommits
                  THEN /\ durable' = publish(durable, r.writes, r.h)
                       /\ unit' = [unit EXCEPT ![c].upgraded = TRUE]
                  ELSE /\ durable' = durable
                       /\ unit' = [unit EXCEPT ![c] = declare(@, r.writes)]
               /\ UNCHANGED <<nCreatedFile, pc>>
    /\ UNCHANGED <<config, shutdown, fileExists, fileLen, mb, pending, nAlloc,
                   lcl, lockHolder, useLock, grants, crashes>>

\* DataFileHeader::init from getDur().writing(this) to the last field
InitWrite(c) ==
    /\ alive /\ pc[c] = "notified"
    /\ LET r == init(h, fileNo, fileLen.lo, TRUE) IN
       /\ h' = r.h
       /\ IF initGateway = "getDur"
          THEN /\ durable' = publish(durable, r.writes, r.h)
               /\ unit' = [unit EXCEPT ![c].inited = TRUE]
          ELSE /\ durable' = durable
               /\ unit' = [unit EXCEPT ![c] = declare(@, r.writes)]
       /\ ret' = [NoRet EXCEPT !.op = "init", !.outcome = r.outcome,
                               !.locked = TRUE, !.fileno = fileNo,
                               !.filelength = fileLen.lo,
                               !.writes = r.writes, !.notified = TRUE,
                               !.initCalled = TRUE]
    /\ pc' = [pc EXCEPT ![c] = "idle"]
    /\ UNCHANGED <<config, shutdown, alive, fileExists, fileLen, mb, pending,
                   nCreatedFile, nUpgrade, deferred, nAlloc, lcl, lockHolder,
                   useLock, grants, crashes>>

\* the caller's unit of work commits
UnitCommit(c) ==
    /\ alive /\ pc[c] = "idle" /\ unit[c] # NoUnit
    /\ durable' = publish(durable, unit[c].fields, h)
    /\ unit' = [unit EXCEPT ![c] = NoUnit]
    /\ ret' = Step("commit")
    /\ UNCHANGED <<config, shutdown, alive, fileExists, fileLen, h, mb,
                   pending, nCreatedFile, nUpgrade, deferred, nAlloc, pc, lcl,
                   lockHolder, useLock, grants, crashes>>

\* the caller's unit of work is rolled back; ret keeps what the unit held
UnitRollback(c) ==
    /\ alive /\ pc[c] = "idle" /\ unit[c] # NoUnit
    /\ h' = publish(h, unit[c].fields, unit[c].pre)
    /\ unit' = [unit EXCEPT ![c] = NoUnit]
    /\ ret' = [NoRet EXCEPT !.op = "rollback", !.writes = unit[c].fields,
                            !.outcome = IF unit[c].upgraded THEN "upgraded"
                                        ELSE IF unit[c].inited
                                        THEN "initialized" ELSE ""]
    /\ UNCHANGED <<config, shutdown, alive, fileExists, fileLen, mb, pending,
                   nCreatedFile, nUpgrade, deferred, nAlloc, durable, pc, lcl,
                   lockHolder, useLock, grants, crashes>>

\* the process dies at any statement; restart and recovery replay leave the
\* durable header mapped. ret.outcome keeps the statement caller 1 was at
Crash ==
    /\ alive
    /\ crashes < MaxCrashes
    /\ crashes' = crashes + 1
    /\ h' = durable
    /\ unit' = [c \in Callers |-> NoUnit]
    /\ pc' = [c \in Callers |-> "idle"]
    /\ lcl' = [c \in Callers |-> NoLocals]
    /\ lockHolder' = 0
    /\ ret' = [NoRet EXCEPT !.op = "crash", !.outcome = pc[1]]
    /\ UNCHANGED <<config, shutdown, alive, fileExists, fileLen, mb, pending,
                   nCreatedFile, nUpgrade, deferred, nAlloc, durable, useLock,
                   grants>>

\* a mapped 64 MiB file carrying any header an earlier run can have left
InitMapped ==
    /\ smallfiles = FALSE /\ prealloc = FALSE /\ ptr32 = FALSE
    /\ fileNo \in 0..MaxFileNo
    /\ shutdown = FALSE /\ alive = TRUE
    /\ fileExists = TRUE
    /\ fileLen = ULL(0, 64 * MiB)
    /\ h \in ExistingHeaders(fileLen)
    /\ mb = TRUE
    /\ pending = 0
    /\ nCreatedFile = 0 /\ nUpgrade = 0 /\ deferred = FALSE /\ nAlloc = 0
    /\ ret = NoRet
    /\ durable = h
    /\ Quiet

\* SpecDur: one caller, units of work and crashes
InitDur == InitMapped /\ useLock = TRUE

NextDur ==
    \/ \E size \in StepSizes : AllocCheck(1, size)
    \/ AllocReadOffset(1)
    \/ AllocWriteUnused(1)
    \/ AllocWriteLength(1)
    \/ AllocReturn(1)
    \/ \E locked \in BOOLEAN : InitCall(1, locked)
    \/ InitWrite(1)
    \/ UnitCommit(1)
    \/ UnitRollback(1)
    \/ Crash

SpecDur == InitDur /\ [][NextDur]_vars

\* SpecRace: two callers of allocExtentArea on an initialized 64 MiB file,
\* with or without the write lock around each call
InitRace ==
    /\ InitMapped
    /\ useLock \in BOOLEAN
    /\ ~uninitialized(h) /\ h.freeListStart = NullLoc

NextRace ==
    \E c \in Callers :
        \/ \E size \in StepSizes : AllocCheck(c, size)
        \/ AllocReadOffset(c)
        \/ AllocWriteUnused(c)
        \/ AllocWriteLength(c)
        \/ AllocReturn(c)

SpecRace == InitRace /\ [][NextRace]_vars

\* ------------------------------------------------------------ properties
InitOps == {"init", "open"}

AllocEffect ==
    [][(ret'.op = "allocExtentArea" /\ ret'.outcome = "ok") =>
          /\ ret'.loc = DiskLoc(fileNo, h.unused.ofs)
          /\ h'.unused = DiskLoc(fileNo, h.unused.ofs + ret'.size)
          /\ h'.unusedLength = h.unusedLength - ret'.size
          /\ h'.fileLength = h.fileLength
          /\ h'.version = h.version
          /\ h'.freeListStart = h.freeListStart
          /\ h'.freeListEnd = h.freeListEnd]_vars

AllocReturnedOldCursor ==
    /\ ret.op = "allocExtentArea" /\ ret.outcome = "ok" /\ ret.size = 1000
    /\ ret.loc = DiskLoc(fileNo, 8192)
    /\ h.unused = DiskLoc(fileNo, 9192)

\* C3: the size open computes is a multiple of 4096, is >= 64 MiB unless
\* small-files mode is set, is <= maxSize(), and is >= minSize whenever
\* minSize <= maxSize().
OpenSizeBounds ==
    ret.op = "open" =>
        /\ ret.size % 4096 = 0
        /\ (ret.size >= 64 * 1024 * 1024 \/ smallfiles)
        /\ ret.size <= maxSize
        /\ (ret.minSize <= maxSize => ret.size >= ret.minSize)

OpenSizeGrown ==
    /\ ret.op = "open"
    /\ ret.minSize > defaultSize /\ ret.minSize <= maxSize
    /\ ret.size > defaultSize /\ ret.size < maxSize

\* C4: init(n, L) on an uninitialized header with L > 32768, write lock
\* held, leaves fileLength = L, version = the tag for new files,
\* unused = (n, 8192), unusedLength = L - 8192 - 16 and both free-list
\* pointers null.
InitEffect ==
    [][(/\ ret'.op \in InitOps /\ ret'.initCalled
        /\ uninitialized(h)
        /\ ret'.filelength > 32768
        /\ ret'.locked) =>
          /\ h'.fileLength = ret'.filelength
          /\ h'.version = defaultForNewFiles
          /\ h'.unused = DiskLoc(ret'.fileno, 8192)
          /\ h'.unusedLength = ret'.filelength - 8192 - 16
          /\ h'.freeListStart = NullLoc
          /\ h'.freeListEnd = NullLoc]_vars

InitializedOtherFileNo ==
    /\ ret.op = "init" /\ ret.outcome = "initialized"
    /\ ret.fileno # fileNo
    /\ h.unused = DiskLoc(ret.fileno, 8192)

\* C5: once the header is initialized in the current format with null
\* free-list pointers, an init call writes no header field and issues no
\* createdFile notification; createdFile is issued at most once per file.
InitOnce ==
    [][/\ (/\ ret'.op \in InitOps
           /\ h.version = defaultForNewFiles
           /\ h.freeListStart = NullLoc /\ h.freeListEnd = NullLoc) =>
             /\ h' = h
             /\ ret'.writes = {} /\ ~ret'.notified
             /\ nCreatedFile' = nCreatedFile
       /\ nCreatedFile' <= 1]_vars

InitCalledAgain ==
    /\ nCreatedFile = 1
    /\ ret.op = "init" /\ ret.outcome = "ok"
    /\ ret.locked /\ ret.filelength > 32768

\* C6: init on an uninitialized header with filelength > 32768 and no write
\* lock returns normally with no notification and no field write; a later
\* init under the write lock performs the full initialization.
DeferredInit ==
    [][(/\ ret'.op \in InitOps /\ ret'.initCalled
        /\ uninitialized(h)
        /\ ret'.filelength > 32768) =>
          IF ~ret'.locked
          THEN /\ ret'.outcome = "deferred"
               /\ h' = h /\ uninitialized(h')
               /\ ret'.writes = {} /\ ~ret'.notified
               /\ nCreatedFile' = nCreatedFile
               /\ alive'
          ELSE /\ ret'.outcome = "initialized"
               /\ ~uninitialized(h')
               /\ ret'.writes = AllFields /\ ret'.notified
               /\ nCreatedFile' = nCreatedFile + 1]_vars

InitializedAfterDeferral ==
    /\ deferred
    /\ ret.op \in InitOps /\ ret.outcome = "initialized"

\* C7: init on an initialized header with freeListStart = freeListEnd =
\* (0,0) rewrites both pointers to null and nothing else; after that no
\* init call takes the initialization or the upgrade transition.
UpgradeOnce ==
    [][/\ (/\ ret'.op \in InitOps /\ ret'.initCalled
           /\ ~uninitialized(h)
           /\ h.freeListStart = ZeroLoc /\ h.freeListEnd = ZeroLoc) =>
             /\ h' = [h EXCEPT !.freeListStart = NullLoc,
                               !.freeListEnd = NullLoc]
             /\ ret'.outcome = "upgraded"
             /\ nUpgrade' = nUpgrade + 1
       /\ (ret'.op \in InitOps /\ nUpgrade >= 1) =>
             /\ h' = h
             /\ ret'.writes = {}
             /\ nUpgrade' = nUpgrade
             /\ nCreatedFile' = nCreatedFile]_vars

InitAfterUpgrade ==
    /\ nUpgrade = 1
    /\ ret.op = "init" /\ ret.outcome = "ok"

\* C8: init on an initialized header with freeListStart = (0,0) and
\* freeListEnd # (0,0) ends in a fatal consistency failure and writes no
\* header field.
TornFreeListFatal ==
    [][(/\ ret'.op \in InitOps /\ ret'.initCalled
        /\ ~uninitialized(h)
        /\ h.freeListStart = ZeroLoc /\ h.freeListEnd # ZeroLoc) =>
          /\ ret'.outcome = "invariant"
          /\ ~alive'
          /\ h' = h
          /\ ret'.writes = {}]_vars

TornFreeListSeen ==
    /\ ret.op \in InitOps /\ ret.outcome = "invariant"
    /\ h.freeListStart = ZeroLoc /\ h.freeListEnd # ZeroLoc

\* C9: allocExtentArea fails, writing nothing and returning no location,
\* when the process is shutting down, the header is null or
\* size > unusedLength; the shutdown check comes first.
AllocFailures ==
    [][ret'.op = "allocExtentArea" =>
          /\ shutdown => ret'.outcome = "massert10357"
          /\ (shutdown \/ ~mb \/ ret'.size > h.unusedLength) =>
                /\ ret'.outcome \in {"massert10357", "massert10359", "verify"}
                /\ h' = h
                /\ ret'.loc = NullLoc]_vars

AllocInShutdownUnmapped ==
    /\ ret.op = "allocExtentArea" /\ ret.outcome = "massert10357"
    /\ shutdown /\ ~mb

\* C10: openExisting returns InvalidPath when the file does not exist and
\* InternalError when the file cannot be mapped, and in both cases leaves
\* the DataFile unmapped.
OpenExistingErrors ==
    [][(ret'.op = "openExisting" /\ ~mb) =>
          /\ ~fileExists => ret'.outcome = "InvalidPath"
          /\ (fileExists /\ ~ret'.mapOk) => ret'.outcome = "InternalError"
          /\ ret'.outcome \in {"InvalidPath", "InternalError"} =>
                (~mb' /\ h' = h /\ alive')]_vars

OpenExistingMapFailed ==
    /\ ret.op = "openExisting" /\ ret.outcome = "InternalError"
    /\ fileExists /\ ~mb

\* C11: openExisting on an existing, mappable file returns OK exactly when
\* the length is <= 2^31-1, a multiple of 4096, and small-files mode is set
\* or the length is >= 64 MiB or it is >= 16 MiB and a multiple of 1 MiB;
\* otherwise it ends in a failed verify.
OpenExistingLength ==
    [][(ret'.op = "openExisting" /\ ~mb /\ fileExists /\ ret'.mapOk) =>
          /\ ret'.outcome \in {"ok", "verify"}
          /\ ret'.outcome = "ok" <=>
                /\ fileLen.hi = 0
                /\ fileLen.lo % 4096 = 0
                /\ \/ smallfiles
                   \/ fileLen.lo >= 64 * 1024 * 1024
                   \/ /\ fileLen.lo >= 16 * 1024 * 1024
                      /\ fileLen.lo % (1024 * 1024) = 0]_vars

OpenExistingMisaligned ==
    /\ ret.op = "openExisting" /\ ret.outcome = "verify" /\ ret.mapOk
    /\ fileLen.hi = 0 /\ fileLen.lo >= 64 * 1024 * 1024
    /\ fileLen.lo % 4096 # 0

\* C12 (as amended): open with preallocateOnly hands the computed size to
\* the preallocation service when the prealloc option is on and makes no
\* request when it is off; either way it returns without mapping and without
\* running header initialization.
PreallocateOnly ==
    [][(ret'.op = "open" /\ ret'.preallocateOnly) =>
          /\ pending' = IF prealloc THEN ret'.size ELSE pending
          /\ ret'.outcome = "ok"
          /\ mb' = mb /\ h' = h
          /\ fileExists' = fileExists /\ fileLen' = fileLen
          /\ ~ret'.initCalled /\ ret'.writes = {}
          /\ nCreatedFile' = nCreatedFile /\ nUpgrade' = nUpgrade]_vars

\* C12 (as stated): open with preallocateOnly always hands the computed size
\* to the preallocation service and leaves the DataFile unmapped and the
\* header unwritten.
PreallocateOnlyAlwaysRequests ==
    [][(ret'.op = "open" /\ ret'.preallocateOnly) =>
          /\ pending' = ret'.size
          /\ mb' = mb /\ h' = h
          /\ ~ret'.initCalled /\ ret'.writes = {}]_vars

PreallocationRequested ==
    /\ ret.op = "open" /\ ret.preallocateOnly /\ ret.outcome = "ok"
    /\ prealloc /\ pending = ret.size /\ pending > 0
    /\ ~mb /\ ~fileExists

\* C13: defaultSize is 64, 128, 256, 512, 1024 MiB for fileNo 0..4 and
\* 0x7ff00000 for fileNo > 4; a quarter of that in small-files mode.
DefaultSizeTable ==
    LET full == CASE fileNo = 0 -> 67108864
                  [] fileNo = 1 -> 134217728
                  [] fileNo = 2 -> 268435456
                  [] fileNo = 3 -> 536870912
                  [] fileNo = 4 -> 1073741824
                  [] OTHER -> 2146435072
    IN  /\ ~smallfiles => defaultSize = full
        /\ smallfiles => defaultSize * 4 = full

DefaultSizeLargeCapSmall ==
    /\ fileNo > 4 /\ smallfiles /\ ~ptr32
    /\ ret.op = "open" /\ ret.minSize = 0 /\ ret.size = 536608768

\* C14 (as amended): open starts from defaultSize(fileNo) and, while the
\* candidate is smaller than minSize, doubles it as long as the candidate is
\* below maxSize()/2 and otherwise jumps to maxSize() and stops; the result
\* is clamped to maxSize().
Candidate(k) == defaultSize * (2 ^ k)

MaxDoublings == 5

GrowthLoop ==
    ret.op = "open" =>
        \E k \in 0..MaxDoublings :
            /\ \A j \in 0..(k - 1) :
                  Candidate(j) < ret.minSize /\ Candidate(j) < maxSize \div 2
            /\ \/ /\ Candidate(k) >= ret.minSize
                  /\ ret.size = IF Candidate(k) > maxSize THEN maxSize
                                ELSE Candidate(k)
               \/ /\ Candidate(k) < ret.minSize
                  /\ Candidate(k) >= maxSize \div 2
                  /\ ret.size = maxSize

\* C14 (as stated): the candidate is doubled unless the doubled value would
\* exceed half of maxSize(), in which case it jumps to maxSize().
GrowthLoopHalfOfDoubled ==
    ret.op = "open" =>
        ret.size = clampSize(growSizeHalfOfDoubled(defaultSize, ret.minSize))

DoubledPastHalf ==
    /\ ret.op = "open"
    /\ defaultSize < ret.minSize
    /\ defaultSize < maxSize \div 2
    /\ defaultSize > (maxSize \div 2) \div 2
    /\ ret.size = 2 * defaultSize

\* C18 (as stated): every successful allocExtentArea on an initialized
\* header leaves unused.offset no smaller and unusedLength no larger than
\* before.
CursorForwardOnly ==
    [][(/\ ret'.op = "allocExtentArea" /\ ret'.outcome = "ok"
        /\ ~uninitialized(h)) =>
          /\ h'.unused.ofs >= h.unused.ofs
          /\ h'.unusedLength <= h.unusedLength]_vars

\* C20 (as stated): once open or init has run, whether it initialized the
\* header or deferred, every DiskLoc a successful allocExtentArea(size)
\* returns has offset >= 8192 and offset + size <= fileLength.
AllocInsideFile ==
    (/\ ret.op = "allocExtentArea" /\ ret.outcome = "ok"
     /\ (deferred \/ nCreatedFile > 0)) =>
        /\ ret.loc.ofs >= 8192
        /\ ret.loc.ofs + ret.size <= h.fileLength

\* C15: allocExtentArea declares its write of unused and its write of
\* unusedLength to the same recovery unit of the caller. No statement of the
\* call changes the durable header, so a crash at any statement followed by
\* replay shows neither change; the unit of work holds both fields or
\* neither when it ends, a rollback gives both their bytes from before the
\* unit and a commit makes both durable in one step.
AllocPairAtomic ==
    [][/\ (ret'.op \in {"commit", "rollback"})
            => ("unused" \in unit[1].fields
                    <=> "unusedLength" \in unit[1].fields)
       /\ (ret'.op = "rollback" /\ "unused" \in unit[1].fields)
            => /\ h'.unused = unit[1].pre.unused
               /\ h'.unusedLength = unit[1].pre.unusedLength
       /\ (ret'.op = "commit" /\ "unused" \in unit[1].fields)
            => /\ durable'.unused = h.unused
               /\ durable'.unusedLength = h.unusedLength
       /\ (pc[1] \in {"checked", "read", "wroteUnused", "wroteLength"}
             \/ ret'.op = "crash")
            => durable' = durable
       /\ (ret'.op = "crash" /\ pc[1] \in {"wroteUnused", "wroteLength"})
            => /\ h'.unused = durable.unused
               /\ h'.unusedLength = durable.unusedLength
               /\ h'.unused # h.unused \/ lcl[1].size = 0
      ]_vars

\* a crash between the two writes of a call of nonzero size: the header
\* after replay has the cursor and the length of before the call
CrashBetweenAllocWrites ==
    /\ ret.op = "crash"
    /\ ret.outcome = "wroteUnused"
    /\ ~uninitialized(h)
    /\ h.unused.ofs + h.unusedLength = h.fileLength - InitSlack

\* C16: init issues the createdFile notification before it writes any
\* header field, declares its field writes outside the caller's unit of
\* work, and a rollback of the unit of work that was open when init ran
\* leaves the header initialized with the field values init gave it.
InitSurvivesRollback ==
    [][/\ (ret'.op = "initNotify")
            => /\ h' = h /\ uninitialized(h)
               /\ nCreatedFile' = nCreatedFile + 1
       /\ (ret'.op = "init" /\ ret'.outcome = "initialized")
            => /\ pc[1] = "notified" /\ nCreatedFile >= 1
               /\ unit'[1].fields = unit[1].fields
               /\ durable' = h'
       /\ (ret'.op = "rollback" /\ unit[1].inited)
            => /\ ~uninitialized(h')
               /\ h' = initFields(fileNo, fileLen.lo)
      ]_vars

RECURSIVE GrantedSize(_)
GrantedSize(g) == IF g = <<>> THEN 0 ELSE Head(g).size + GrantedSize(Tail(g))

\* two callers were returned the same DiskLoc
SameLocTwice ==
    \E i, j \in DOMAIN grants :
        /\ grants[i].c # grants[j].c
        /\ grants[i].loc = grants[j].loc

\* every call has returned and the header lacks a cursor advance or a
\* length decrement of one of them
LostUpdate ==
    /\ \A c \in Callers : pc[c] = "idle"
    /\ \/ h.unused.ofs # HeaderSize + GrantedSize(grants)
       \/ h.unusedLength
            # h.fileLength - HeaderSize - InitSlack - GrantedSize(grants)

\* C19: when every call of allocExtentArea runs under the exclusive write
\* lock from its first statement to its return, no state is reachable in
\* which two callers were returned the same DiskLoc or a call's cursor
\* advance or length decrement is lost.
RaceFreeUnderLock == useLock => ~(SameLocTwice \/ LostUpdate)

\* two callers without the lock, both with a size above zero, are returned
\* the same DiskLoc and one cursor advance is lost
UnlockedRace ==
    /\ ~useLock
    /\ SameLocTwice /\ LostUpdate
    /\ \A i \in DOMAIN grants : grants[i].size > 0

TypeOK ==
    /\ mb \in BOOLEAN
    /\ h.version \in {UninitVersion, LegacyVersion, defaultForNewFiles}

====
